---- MODULE Spec2Model ----
(***************************************************************************)
(* Verification model of the AMC simulation core.                          *)
(*                                                                         *)
(* Part I  (Spec):   the simulation orchestrator of                        *)
(*   src/services/SimulationService.js - the isRunning/isPaused state      *)
(*   machine, the registry of setInterval handles, suspended start()       *)
(*   calls, in-flight tick bodies and the session counters.                *)
(* Part II (TxSpec): transaction settlement and the holdings aggregate of  *)
(*   src/models/Transaction.js driven by the settlement task; (SipSpec):   *)
(*   the life cycle of a SIP registration of src/models/SIP.js.            *)
(* Part III (FolioSpec): folio creation and the per-customer folio limit;  *)
(*   (NavSpec): the NAV-update task of src/models/Scheme.js.               *)
(*                                                                         *)
(* Node.js runs one callback at a time; a handler is split into one        *)
(* action per stretch of code between two awaits on storage.               *)
(***************************************************************************)
EXTENDS Integers, Sequences, FiniteSets, TLC

VARIABLES
  isRunning,   \* SimulationService.isRunning
  isPaused,    \* SimulationService.isPaused
  startTime,   \* SimulationService.startTime (0 = null)
  intervals,   \* SimulationService.intervals: task name -> timer id
  stats,       \* SimulationService.stats: the five session counters
  timers,      \* live setInterval timers of the event loop: [id, task]
  starts,      \* suspended start() calls: awaited statement of initializeSchemes -> how many
  bodies,      \* in-flight tick bodies: slot -> [task, script]
  dbWrites,    \* write statements applied per table by the orchestrator's tasks
  fired,       \* number of timer callbacks started so far
  last,        \* outcome of the last API call / last error logged at a task boundary
  quiesced,    \* history: stop()/pause() took effect and no start()/resume() since
  txns,        \* table transactions: row id -> row
  holdings,    \* table holdings: folio (one scheme per folio) -> row
  sips,        \* table sip_registrations: row id -> row
  schemeNav,   \* schemes.nav of the scheme the folios are invested in
  jobs,        \* in-flight settlement / SIP execution callbacks: slot -> job
  applied,     \* history: row id -> number of holdings upserts made for it
  today,       \* the calendar date findDueForExecution compares with
  executed,    \* history: registration id -> number of execute() calls that returned
  folioRows,   \* table folios: row id -> [customerId, status]
  folioCalls,  \* in-flight folio-creation calls: slot -> call
  schemeRows,  \* table schemes: scheme id -> [nav (ten-thousandths), category]
  navHistory,  \* table nav_history: rows [schemeId, navDate, nav]
  navJobs,     \* in-flight NAV-update callbacks: slot -> job
  navDate,     \* the calendar day new Date() falls on
  mutatedOn,   \* history: the <<scheme, day>> pairs on which UPDATE schemes SET nav ran
  navTicks     \* number of NAV-update callbacks started so far

orchVars == <<isRunning, isPaused, startTime, intervals, stats, timers,
              starts, bodies, dbWrites, fired, last, quiesced>>

txVars == <<txns, holdings, sips, schemeNav, jobs, applied, today, executed>>

folioVars == <<folioRows, folioCalls>>

navVars == <<schemeRows, navHistory, navJobs, navDate, mutatedOn, navTicks>>

vars == <<isRunning, isPaused, startTime, intervals, stats, timers,
          starts, bodies, dbWrites, fired, last, quiesced,
          txns, holdings, sips, schemeNav, jobs, applied, today, executed,
          folioRows, folioCalls,
          schemeRows, navHistory, navJobs, navDate, mutatedOn, navTicks>>

----------------------------------------------------------------------------
(* Bounds *)

MaxStarts   == 2   \* start() calls suspended in initializeSchemes at once
MaxTicks    == 1   \* timer callbacks started in one behaviour
MaxTx       == 2   \* rows of table transactions
MaxJobs     == 2   \* settlement / SIP execution callbacks in flight at once
MaxCount    == 2   \* the count argument of createCustomers, createFolios, createTransactions

----------------------------------------------------------------------------
(* Part I: the orchestrator *)

TaskNames == {"customerCreation", "folioCreation", "transactionSimulation",
              "camsProcessing", "sipExecution", "navUpdates"}

StatNames == {"customersCreated", "foliosCreated", "transactionsCreated",
              "sipsCreated", "camsProcessed"}

Tables == {"customers", "schemes", "folios", "transactions",
           "sip_registrations", "holdings", "nav_history"}

\* Values Date.now() returns to start(); 0 stands for null.
ClockReadings == {1, 2}

\* Numbers of rows a task's batch query returns.
BatchSizes == {0, 1}

\* Every started callback may still be in flight.
MaxBodies == MaxTicks

\* Each start() call in flight can leave one set of six timers alive.
MaxTimerSets == MaxStarts

ZeroStats == [s \in StatNames |-> 0]

NoIntervals == [n \in {} |-> 0]

IdleBody == [task |-> "none", script |-> <<>>]

TimerIds == 1 .. (6 * MaxTimerSets)

LiveIds == {t.id : t \in timers}

\* The k smallest timer ids that are not alive.
RECURSIVE FreshIds(_, _)
FreshIds(k, used) ==
  IF k = 0 THEN {}
  ELSE LET i == CHOOSE x \in TimerIds \ used :
                   \A y \in TimerIds \ used : x <= y
       IN {i} \cup FreshIds(k - 1, used \cup {i})

\* An order of the task names: the order of the start* calls in start()/resume().
TaskOrder == <<"customerCreation", "folioCreation", "transactionSimulation",
               "camsProcessing", "sipExecution", "navUpdates">>

RECURSIVE SetToSeq(_)
SetToSeq(S) ==
  IF S = {} THEN <<>>
  ELSE LET m == CHOOSE x \in S : \A y \in S : x <= y
       IN <<m>> \o SetToSeq(S \ {m})

CanRegister == Cardinality(timers) + 6 <= 6 * MaxTimerSets

\* startCustomerCreation() .. startNAVUpdates(): each does
\* this.intervals.<task> = setInterval(...), overwriting the entry.
RegisteredIntervals ==
  LET ids == SetToSeq(FreshIds(6, LiveIds))
  IN [n \in TaskNames |-> ids[CHOOSE i \in 1..6 : TaskOrder[i] = n]]

RegisteredTimers ==
  LET reg == RegisteredIntervals
  IN timers \cup {[id |-> reg[n], task |-> n] : n \in TaskNames}

\* Object.values(this.intervals).forEach(clearInterval)
ClearedTimers ==
  {t \in timers : ~(\E n \in DOMAIN intervals : intervals[n] = t.id)}

----------------------------------------------------------------------------
(* start() *)

SeedPcs == {"findAll", "bulkCreate", "insertNAVHistory"}

Suspended == starts["findAll"] + starts["bulkCreate"] + starts["insertNAVHistory"]

\* start() without its "already running" guard.
StartNoGuard ==
  /\ Suspended < MaxStarts
  /\ isRunning' = TRUE
  /\ isPaused' = FALSE
  /\ startTime' \in ClockReadings
  /\ starts' = [starts EXCEPT !["findAll"] = @ + 1]
  /\ last' = IF isRunning THEN "start: warn Simulation is already running" ELSE "ok"
  /\ quiesced' = FALSE
  /\ UNCHANGED <<intervals, stats, timers, bodies, dbWrites, fired>>
  /\ UNCHANGED <<txVars, folioVars, navVars>>

\* start(): lines 26-39, up to the first await inside initializeSchemes().
Start ==
  /\ UNCHANGED <<txVars, folioVars, navVars>>
  /\ IF isRunning
     THEN /\ last' = "start: warn Simulation is already running"
          /\ UNCHANGED <<isRunning, isPaused, startTime, intervals, stats,
                         timers, starts, bodies, dbWrites, fired, quiesced>>
     ELSE /\ Suspended < MaxStarts
          /\ isRunning' = TRUE
          /\ isPaused' = FALSE
          /\ startTime' \in ClockReadings
          /\ starts' = [starts EXCEPT !["findAll"] = @ + 1]
          /\ last' = "ok"
          /\ quiesced' = FALSE
          /\ UNCHANGED <<intervals, stats, timers, bodies, dbWrites, fired>>

\* The rest of start() once initializeSchemes() has resolved: lines 41-49.
StartRegister(pc) ==
  /\ CanRegister
  /\ intervals' = RegisteredIntervals
  /\ timers' = RegisteredTimers
  /\ starts' = [starts EXCEPT ![pc] = @ - 1]
  /\ last' = "ok"

\* initializeSchemes() of a suspended start(): the awaited statement pc resolves.
SeedOk(pc) ==
  /\ starts[pc] > 0
  /\ \/ /\ pc = "findAll"
        /\ dbWrites["schemes"] > 0          \* existing schemes: return
        /\ StartRegister(pc)
        /\ UNCHANGED dbWrites
     \/ /\ pc = "findAll"
        /\ dbWrites["schemes"] = 0
        /\ starts' = [starts EXCEPT ![pc] = @ - 1, !["bulkCreate"] = @ + 1]
        /\ UNCHANGED <<intervals, timers, dbWrites, last>>
     \/ /\ pc = "bulkCreate"
        /\ dbWrites' = [dbWrites EXCEPT !["schemes"] = @ + 1]
        /\ starts' = [starts EXCEPT ![pc] = @ - 1, !["insertNAVHistory"] = @ + 1]
        /\ UNCHANGED <<intervals, timers, last>>
     \/ /\ pc = "insertNAVHistory"
        /\ dbWrites' = [dbWrites EXCEPT !["nav_history"] = @ + 1]
        /\ StartRegister(pc)
  /\ UNCHANGED <<isRunning, isPaused, startTime, stats, bodies, fired, quiesced>>
  /\ UNCHANGED <<txVars, folioVars, navVars>>

\* initializeSchemes() rejects at statement pc: the catch block of start(),
\* lines 50-54.
SeedFail(pc) ==
  /\ starts[pc] > 0
  /\ isRunning' = FALSE
  /\ starts' = [starts EXCEPT ![pc] = @ - 1]
  /\ last' = "start: throw initializeSchemes"
  /\ UNCHANGED <<isPaused, startTime, intervals, stats, timers, bodies,
                 dbWrites, fired, quiesced>>
  /\ UNCHANGED <<txVars, folioVars, navVars>>

----------------------------------------------------------------------------
(* stop(), pause(), resume(), reset() *)

\* The effect of stop() past its guard: lines 63-69.
StopEffect ==
  /\ isRunning' = FALSE
  /\ timers' = ClearedTimers
  /\ intervals' = NoIntervals

\* stop(): lines 57-72.
Stop ==
  /\ IF ~isRunning
     THEN /\ last' = "stop: warn Simulation is not running"
          /\ UNCHANGED <<isRunning, timers, intervals, quiesced>>
     ELSE /\ StopEffect
          /\ quiesced' = TRUE
          /\ last' = "ok"
  /\ UNCHANGED <<isPaused, startTime, stats, starts, bodies, dbWrites, fired>>
  /\ UNCHANGED <<txVars, folioVars, navVars>>

\* pause() that only warns when the simulation is not running.
PauseWarnsWhenStopped ==
  /\ IF ~isRunning \/ isPaused
     THEN /\ last' = "pause: warn Simulation is already paused"
          /\ UNCHANGED <<isPaused, timers, intervals, quiesced>>
     ELSE /\ timers' = ClearedTimers
          /\ intervals' = NoIntervals
          /\ isPaused' = TRUE
          /\ quiesced' = TRUE
          /\ last' = "ok"
  /\ UNCHANGED <<isRunning, startTime, stats, starts, bodies, dbWrites, fired>>
  /\ UNCHANGED <<txVars, folioVars, navVars>>

\* pause(): lines 464-482.
Pause ==
  /\ IF ~isRunning
     THEN /\ last' = "pause: throw Simulation is not running"
          /\ UNCHANGED <<isPaused, timers, intervals, quiesced>>
     ELSE IF isPaused
     THEN /\ last' = "pause: warn Simulation is already paused"
          /\ UNCHANGED <<isPaused, timers, intervals, quiesced>>
     ELSE /\ timers' = ClearedTimers
          /\ intervals' = NoIntervals
          /\ isPaused' = TRUE
          /\ quiesced' = TRUE
          /\ last' = "ok"
  /\ UNCHANGED <<isRunning, startTime, stats, starts, bodies, dbWrites, fired>>
  /\ UNCHANGED <<txVars, folioVars, navVars>>

\* resume(): lines 484-504.
Resume ==
  /\ IF ~isRunning
     THEN /\ last' = "resume: throw Simulation is not running"
          /\ UNCHANGED <<isPaused, timers, intervals, quiesced>>
     ELSE IF ~isPaused
     THEN /\ last' = "resume: warn Simulation is not paused"
          /\ UNCHANGED <<isPaused, timers, intervals, quiesced>>
     ELSE /\ CanRegister
          /\ intervals' = RegisteredIntervals
          /\ timers' = RegisteredTimers
          /\ isPaused' = FALSE
          /\ quiesced' = FALSE
          /\ last' = "ok"
  /\ UNCHANGED <<isRunning, startTime, stats, starts, bodies, dbWrites, fired>>
  /\ UNCHANGED <<txVars, folioVars, navVars>>

\* reset(): stop() has no await of its own, so the continuation after
\* "await this.stop()" runs in the same microtask checkpoint, before any
\* timer, I/O completion or request handler.
Reset ==
  /\ IF isRunning
     THEN StopEffect /\ quiesced' = TRUE
     ELSE UNCHANGED <<isRunning, timers, intervals, quiesced>>
  /\ stats' = ZeroStats
  /\ startTime' = 0
  /\ isPaused' = FALSE
  /\ last' = "ok"
  /\ UNCHANGED <<starts, bodies, dbWrites, fired>>
  /\ UNCHANGED <<txVars, folioVars, navVars>>

----------------------------------------------------------------------------
(* Tick bodies                                                             *)
(*                                                                         *)
(* A tick body is the list of storage statements its callback still has    *)
(* to await.  A statement names the table it writes ("none": it only       *)
(* reads), the session counter incremented right after it ("none": no      *)
(* counter), the try blocks it is nested in and the innermost of them.     *)
(* Try block 0 is the try/catch of the setInterval callback itself.  A     *)
(* read that is always followed by a write of the same try block is        *)
(* folded into that write.                                                 *)

Stmt(tbl, stat, in, catch) ==
  [tbl |-> tbl, stat |-> stat, in |-> in, catch |-> catch]

Rd == Stmt("none", "none", {0}, 0)

\* All concatenations of k blocks drawn from B.
RECURSIVE Blocks(_, _)
Blocks(B, k) ==
  IF k = 0 THEN {<<>>}
  ELSE {b \o r : b \in B, r \in Blocks(B, k - 1)}

\* startCustomerCreation: Customer.create, then customersCreated++.
CustomerScripts == {<<Stmt("customers", "customersCreated", {0}, 0)>>}

\* createFolioForNewCustomer (try block 1) with createSIPForFolio (try block 2).
NewFolioPaths ==
  { <<>>,                                                   \* 70% draw failed
    <<Stmt("none", "none", {0, 1}, 1)>>,                    \* no customers / no schemes
    <<Stmt("folios", "foliosCreated", {0, 1}, 1)>>,
    <<Stmt("folios", "foliosCreated", {0, 1}, 1),
      Stmt("sip_registrations", "sipsCreated", {0, 1, 2}, 2)>> }

\* createFolioForExistingCustomer (try block 3).
ExistingFolioPaths ==
  { <<>>,                                                   \* 30% draw failed
    <<Stmt("none", "none", {0, 3}, 3)>>,                    \* nobody eligible
    <<Stmt("folios", "foliosCreated", {0, 3}, 3)>> }

\* startFolioCreation
FolioScripts == {a \o b : a \in NewFolioPaths, b \in ExistingFolioPaths}

\* startTransactionSimulation: getRandomFoliosForTransactions, then per
\* folio (70%) Transaction.create and transactionsCreated++.
TransactionScripts ==
  {<<Rd>> \o r : r \in UNION {Blocks({<<Stmt("transactions", "transactionsCreated", {0}, 0)>>}, k)
                               : k \in BatchSizes}}

\* Transaction.process: UPDATE transactions, upsert holdings, reprice holdings.
ProcessStmts(in, catch) ==
  <<Stmt("transactions", "none", in, catch),
    Stmt("holdings", "none", in, catch),
    Stmt("holdings", "none", in, catch)>>

\* startCAMSProcessing: findPendingForCAMS, then per transaction either
\* process + updateCAMSStatus(PROCESSED) + camsProcessed++ or
\* updateCAMSStatus(REJECTED).
CamsBlocks ==
  { ProcessStmts({0}, 0) \o <<Stmt("transactions", "camsProcessed", {0}, 0)>>,
    <<Stmt("transactions", "none", {0}, 0)>> }

CamsScripts ==
  {<<Rd>> \o r : r \in UNION {Blocks(CamsBlocks, k) : k \in BatchSizes}}

\* startSIPExecution: findDueForExecution, then per SIP, in a try block of
\* its own, sip.execute: Transaction.create, process, updateAfterExecution.
RECURSIVE SipBlocks(_)
SipBlocks(k) ==
  IF k = 0 THEN <<>>
  ELSE SipBlocks(k - 1)
       \o <<Stmt("transactions", "none", {0, k}, k)>>
       \o ProcessStmts({0, k}, k)
       \o <<Stmt("sip_registrations", "none", {0, k}, k)>>

SipScripts == {<<Rd>> \o SipBlocks(k) : k \in BatchSizes}

\* startNAVUpdates: Scheme.findAll, then per scheme updateNAV:
\* UPDATE schemes, insertNAVHistory.
NavScripts ==
  {<<Rd>> \o r : r \in UNION {Blocks({<<Stmt("schemes", "none", {0}, 0),
                                       Stmt("nav_history", "none", {0}, 0)>>}, k)
                               : k \in BatchSizes}}

Scripts(task) ==
  CASE task = "customerCreation"      -> CustomerScripts
    [] task = "folioCreation"         -> FolioScripts \ {<<>>}
    [] task = "transactionSimulation" -> TransactionScripts
    [] task = "camsProcessing"        -> CamsScripts
    [] task = "sipExecution"          -> SipScripts
    [] task = "navUpdates"            -> NavScripts

FreeBody == {b \in 1..MaxBodies : bodies[b] = IdleBody}

\* A live interval timer of the task fires: the callback runs up to its first await.
\* (A folio tick whose two draws both fail awaits nothing and is no step.)
TickFire(task) ==
  /\ \E tm \in timers : tm.task = task
  /\ fired < MaxTicks
  /\ FreeBody # {}
  /\ \E sc \in Scripts(task) :
       LET b == CHOOSE x \in FreeBody : \A y \in FreeBody : x <= y
       IN bodies' = [bodies EXCEPT ![b] = [task |-> task, script |-> sc]]
  /\ fired' = fired + 1
  /\ UNCHANGED <<isRunning, isPaused, startTime, intervals, stats, timers,
                 starts, dbWrites, last, quiesced>>
  /\ UNCHANGED <<txVars, folioVars, navVars>>

RestBody(task, sc) ==
  IF sc = <<>> THEN IdleBody ELSE [task |-> task, script |-> sc]

\* The awaited statement of body b resolves; the code up to the next await runs.
BodyOk(b) ==
  /\ bodies[b] # IdleBody
  /\ LET st == Head(bodies[b].script)
     IN /\ dbWrites' = IF st.tbl = "none" THEN dbWrites
                       ELSE [dbWrites EXCEPT ![st.tbl] = @ + 1]
        /\ stats' = IF st.stat = "none" THEN stats
                    ELSE [stats EXCEPT ![st.stat] = @ + 1]
        /\ bodies' = [bodies EXCEPT ![b] =
                        RestBody(bodies[b].task, Tail(bodies[b].script))]
  /\ UNCHANGED <<isRunning, isPaused, startTime, intervals, timers, starts,
                 fired, last, quiesced>>
  /\ UNCHANGED <<txVars, folioVars, navVars>>

\* What is left of a script when its first statement throws: the statements
\* outside the innermost try block of the failing one.
AfterThrow(sc) ==
  LET st == Head(sc)
  IN SelectSeq(Tail(sc), LAMBDA x : st.catch \notin x.in)

\* A tick error that is not caught: it ends the body and cancels the task's timer.
BodyFailCancels(b) ==
  /\ bodies[b] # IdleBody
  /\ bodies' = [bodies EXCEPT ![b] = IdleBody]
  /\ timers' = {t \in timers : t.task # bodies[b].task}
  /\ last' = "caught: tick error"
  /\ UNCHANGED <<isRunning, isPaused, startTime, intervals, stats,
                 starts, dbWrites, fired, quiesced>>
  /\ UNCHANGED <<txVars, folioVars, navVars>>

\* The awaited statement of body b rejects: the innermost catch logs the
\* error and the callback goes on after that try block.
BodyFail(b) ==
  /\ bodies[b] # IdleBody
  /\ bodies' = [bodies EXCEPT ![b] =
                  RestBody(bodies[b].task, AfterThrow(bodies[b].script))]
  /\ last' = "caught: tick error"
  /\ UNCHANGED <<isRunning, isPaused, startTime, intervals, stats, timers,
                 starts, dbWrites, fired, quiesced>>
  /\ UNCHANGED <<txVars, folioVars, navVars>>

----------------------------------------------------------------------------
(* Manual triggers: createCustomers, createFolios, createTransactions      *)

ManualNames == {"createCustomers", "createFolios", "createTransactions"}

\* The table a manual trigger creates its entities in.
EntityTable(name) ==
  CASE name = "createCustomers"    -> "customers"
    [] name = "createFolios"       -> "folios"
    [] name = "createTransactions" -> "transactions"
    [] OTHER                       -> "none"

\* The session counter a manual trigger increments after each create.
EntityCounter(name) ==
  CASE name = "createCustomers"    -> "customersCreated"
    [] name = "createFolios"       -> "foliosCreated"
    [] name = "createTransactions" -> "transactionsCreated"
    [] OTHER                       -> "none"

\* The manual triggers with a createTransactions that counts nothing.
ManualScriptsUncounted(name, count) ==
  CASE name = "createCustomers" ->
         Blocks({<<Stmt("customers", "customersCreated", {0}, 0)>>}, count)
    [] name = "createFolios" ->
         Blocks({ <<Stmt("folios", "foliosCreated", {0}, 0)>>,
                  <<Stmt("folios", "foliosCreated", {0}, 0),
                    Stmt("sip_registrations", "sipsCreated", {0, 1}, 1)>> }, count)
    [] name = "createTransactions" ->
         Blocks({<<Stmt("transactions", "none", {0}, 0)>>}, count)

\* createCustomers(count): per pass Customer.create and customersCreated++.
\* createFolios(count): per pass Customer.findAll, Scheme.findAll,
\* Folio.create and foliosCreated++, then (50%) createSIPForFolio in a try
\* block of its own.  createTransactions(count): per pass
\* getRandomFoliosForTransactions, Transaction.create and
\* transactionsCreated++.  Try block 0 is the method's own, which rethrows.
ManualScripts(name, count) ==
  CASE name = "createCustomers" ->
         Blocks({<<Stmt("customers", "customersCreated", {0}, 0)>>}, count)
    [] name = "createFolios" ->
         Blocks({ <<Stmt("folios", "foliosCreated", {0}, 0)>>,
                  <<Stmt("folios", "foliosCreated", {0}, 0),
                    Stmt("sip_registrations", "sipsCreated", {0, 1}, 1)>> }, count)
    [] name = "createTransactions" ->
         Blocks({<<Stmt("transactions", "transactionsCreated", {0}, 0)>>}, count)

\* Rows written so far to the three tables of the manual triggers.
EntityWrites ==
  dbWrites["customers"] + dbWrites["folios"] + dbWrites["transactions"]

\* A manual trigger is called and runs up to its first await on storage;
\* it looks at neither isRunning nor isPaused.  (The first conjunct bounds
\* the rows created in one behaviour.)
ManualCall(name, count) ==
  /\ EntityWrites + count <= MaxCount
  /\ FreeBody # {}
  /\ \E sc \in ManualScripts(name, count) :
       LET b == CHOOSE x \in FreeBody : \A y \in FreeBody : x <= y
       IN bodies' = [bodies EXCEPT ![b] = [task |-> name, script |-> sc]]
  /\ UNCHANGED <<isRunning, isPaused, startTime, intervals, stats, timers,
                 starts, dbWrites, fired, last, quiesced>>
  /\ UNCHANGED <<txVars, folioVars, navVars>>

\* The awaited statement of a manual trigger rejects, or its query finds no
\* customer, scheme or folio: outside createSIPForFolio the method logs the
\* error and rethrows it to its caller.
ManualFail(b) ==
  /\ bodies[b].task \in ManualNames
  /\ bodies' = [bodies EXCEPT ![b] =
                  RestBody(bodies[b].task, AfterThrow(bodies[b].script))]
  /\ last' = IF Head(bodies[b].script).catch = 0
             THEN "thrown: manual error" ELSE "caught: manual error"
  /\ UNCHANGED <<isRunning, isPaused, startTime, intervals, stats, timers,
                 starts, dbWrites, fired, quiesced>>
  /\ UNCHANGED <<txVars, folioVars, navVars>>

----------------------------------------------------------------------------

(* Part II: transactions, settlement and the holdings aggregate            *)
(*                                                                         *)
(* Amounts and NAVs are whole rupees, units are counted in millionths      *)
(* (DECIMAL(15,6)) and current_value in paise (DECIMAL(15,2)).  Every      *)
(* folio is invested in the one scheme whose NAV is schemeNav, so a folio  *)
(* stands for its (folio, scheme) pair.                                    *)

Folios == {1, 2}

SipIds == {1}

\* Amounts the transaction task draws.
Amounts == {1000}

Navs == {10, 30}

\* transaction_mode values the transaction task draws; SIP and STP are
\* handled like LUMPSUM by updateHoldings.
GenModes == {"LUMPSUM", "REDEMPTION"}

\* Number of millionths in one unit: toFixed(6).
UnitScale == 1000000

\* Utils.calculateUnits: amount / nav rounded to six decimals.
calculateUnits(amount, nav) ==
  (amount \div nav) * UnitScale
    + (2 * (amount % nav) * UnitScale + nav) \div (2 * nav)

\* total_units * nav stored in a DECIMAL(15,2) column: paise, rounded half
\* away from zero.
CurrentValue(units, nav) ==
  LET a == IF units < 0 THEN -units ELSE units
      v == (a \div 10000) * nav + (2 * (a % 10000) * nav + 10000) \div 20000
  IN IF units < 0 THEN -v ELSE v

NoTx == [id |-> 0, folio |-> 0, mode |-> "none", amount |-> 0, units |-> 0,
         nav |-> 0, status |-> "none"]

\* A date is the first day of a month, counted in months from 2024-01-01.
DateOf(year, month) == (year - 2024) * 12 + (month - 1)

\* SQL NULL in a date column (no date is negative).
NullDate == -1

Frequencies == {"MONTHLY", "QUARTERLY", "YEARLY"}

\* Utils.getNextSipExecutionDate: setMonth(+1), setMonth(+3), setFullYear(+1);
\* any other frequency is treated as MONTHLY.
getNextSipExecutionDate(frequency, currentDate) ==
  CASE frequency = "MONTHLY"   -> currentDate + 1
    [] frequency = "QUARTERLY" -> currentDate + 3
    [] frequency = "YEARLY"    -> currentDate + 12
    [] OTHER                   -> currentDate + 1

NoSip == [id |-> 0, folio |-> 0, amount |-> 0, frequency |-> "none",
          nextExecutionDate |-> NullDate, endDate |-> NullDate,
          executionCount |-> 0, maxExecutions |-> 0, status |-> "none"]

NoHolding == [present |-> FALSE, total_units |-> 0, invested_amount |-> 0,
              current_value |-> 0]

IdleJob == [kind |-> "idle", pc |-> "none", queue |-> <<>>]

\* new Transaction(row): the in-memory copy of row i.
TxObject(i) ==
  [id |-> i, folio |-> txns[i].folio, mode |-> txns[i].mode,
   amount |-> txns[i].amount, units |-> txns[i].units, nav |-> txns[i].nav,
   status |-> txns[i].status]

\* new SIP(row)
SipObject(s) ==
  [id |-> s, folio |-> sips[s].folio, amount |-> sips[s].amount,
   frequency |-> sips[s].frequency,
   nextExecutionDate |-> sips[s].nextExecutionDate,
   endDate |-> sips[s].endDate,
   executionCount |-> sips[s].executionCount,
   maxExecutions |-> sips[s].maxExecutions, status |-> sips[s].status]

\* Transaction.create: the inserted row.
NewTx(folio, mode, amount, nav) ==
  [folio |-> folio, mode |-> mode, amount |-> amount, units |-> 0,
   nav |-> nav, status |-> "SUBMITTED", cams |-> "PENDING",
   camsReferenceNumber |-> "none"]

\* Transaction.isProcessed on an in-memory copy.
isProcessed(tx) == tx.status = "PROCESSED"

\* Transaction.findPendingForCAMS: the rows with cams_status PENDING and
\* status SUBMITTED among the rows 1..k, the ones created up to the cutoff
\* time, in creation order.
findPendingForCAMS(k) ==
  LET all == [i \in 1..k |-> [sip |-> NoSip, tx |-> TxObject(i), nav |-> txns[i].nav]]
  IN SelectSeq(all, LAMBDA it : /\ txns[it.tx.id].cams = "PENDING"
                                /\ txns[it.tx.id].status = "SUBMITTED")

\* SIP.findDueForExecution: ACTIVE registrations whose next execution date
\* has come and whose execution count is below max_executions, each joined
\* with the NAV of its scheme.
findDueForExecution ==
  LET all == [s \in 1..Cardinality(SipIds) |->
                [sip |-> SipObject(s), tx |-> NoTx, nav |-> schemeNav]]
  IN SelectSeq(all, LAMBDA it :
        /\ sips[it.sip.id].status = "ACTIVE"
        /\ sips[it.sip.id].nextExecutionDate # NullDate
        /\ sips[it.sip.id].nextExecutionDate <= today
        /\ (sips[it.sip.id].endDate = NullDate
            \/ sips[it.sip.id].endDate >= today)
        /\ (sips[it.sip.id].maxExecutions = 0
            \/ sips[it.sip.id].executionCount < sips[it.sip.id].maxExecutions))

\* The settlement loop reaches the head of queue q: simulateCAMSProcessing
\* draws the outcome and the first statement of that branch is awaited.
CamsStep(q) ==
  IF q = <<>> THEN {IdleJob}
  ELSE {[kind |-> "cams", pc |-> p, queue |-> q] :
          p \in {IF isProcessed(Head(q).tx) THEN "updateCAMSStatus" ELSE "process",
                 "rejectCAMS"}}

\* The SIP loop reaches the head of queue q: sip.execute awaits Transaction.create.
SipStep(q) ==
  IF q = <<>> THEN IdleJob ELSE [kind |-> "sip", pc |-> "create", queue |-> q]

FreeJob == {j \in DOMAIN jobs : jobs[j] = IdleJob}

LowestFreeJob == CHOOSE j \in FreeJob : \A y \in FreeJob : j <= y

\* The job with the transaction object of its current item replaced.
WithTx(job, tx, pc) ==
  [job EXCEPT !.pc = pc, !.queue = <<[Head(job.queue) EXCEPT !.tx = tx]>> \o Tail(job.queue)]

\* Transaction.create called by the transaction task (startTransactionSimulation,
\* createTransactions) with the data of generateRandomTransaction.
CreateTransaction(folio, mode, amount) ==
  /\ Len(txns) < MaxTx
  /\ txns' = Append(txns, NewTx(folio, mode, amount, schemeNav))
  /\ UNCHANGED <<holdings, sips, schemeNav, jobs, applied, today, executed>>
  /\ UNCHANGED <<orchVars, folioVars, navVars>>

\* A settlement tick: findPendingForCAMS(20) returns the pending rows up to
\* cutoff k and the loop starts on the first of them.
StartCAMSProcessing(k) ==
  /\ k <= Len(txns)
  /\ FreeJob # {}
  /\ findPendingForCAMS(k) # <<>>
  /\ \E job \in CamsStep(findPendingForCAMS(k)) :
       jobs' = [jobs EXCEPT ![LowestFreeJob] = job]
  /\ UNCHANGED <<txns, holdings, sips, schemeNav, applied, today, executed>>
  /\ UNCHANGED <<orchVars, folioVars, navVars>>

\* A SIP tick: findDueForExecution returns the due registrations and the
\* loop starts on the first of them.
StartSIPExecution ==
  /\ FreeJob # {}
  /\ findDueForExecution # <<>>
  /\ jobs' = [jobs EXCEPT ![LowestFreeJob] = SipStep(findDueForExecution)]
  /\ UNCHANGED <<txns, holdings, sips, schemeNav, applied, today, executed>>
  /\ UNCHANGED <<orchVars, folioVars, navVars>>

\* SIP.execute: Transaction.create resolves; transaction.process(nav) is called.
Execute(j) ==
  /\ jobs[j].pc = "create"
  /\ Len(txns) < MaxTx
  /\ LET it == Head(jobs[j].queue)
         row == NewTx(it.sip.folio, "SIP", it.sip.amount, it.nav)
         id == Len(txns) + 1
     IN /\ txns' = Append(txns, row)
        /\ jobs' = [jobs EXCEPT ![j] =
                      WithTx(@, [id |-> id, folio |-> row.folio, mode |-> row.mode,
                                 amount |-> row.amount, units |-> row.units,
                                 nav |-> row.nav, status |-> row.status], "process")]
  /\ UNCHANGED <<holdings, sips, schemeNav, applied, today, executed>>
  /\ UNCHANGED <<orchVars, folioVars, navVars>>

\* Transaction.process: the UPDATE of the row resolves (units, nav, status
\* PROCESSED), the object takes the returned row, updateHoldings is called.
Process(j) ==
  /\ jobs[j].pc = "process"
  /\ LET it == Head(jobs[j].queue)
         id == it.tx.id
         units == calculateUnits(it.tx.amount, it.nav)
     IN /\ txns' = [txns EXCEPT ![id] =
                      [@ EXCEPT !.units = units, !.nav = it.nav, !.status = "PROCESSED"]]
        /\ jobs' = [jobs EXCEPT ![j] =
                      WithTx(@, [id |-> id, folio |-> txns[id].folio,
                                 mode |-> txns[id].mode, amount |-> txns[id].amount,
                                 units |-> units, nav |-> it.nav,
                                 status |-> "PROCESSED"], "updateHoldings")]
  /\ UNCHANGED <<holdings, sips, schemeNav, applied, today, executed>>
  /\ UNCHANGED <<orchVars, folioVars, navVars>>

\* updateHoldings without its REDEMPTION branch.
unitsChangeUnsigned(tx) == tx.units

\* The signed contribution of a transaction object to its holding.
unitsChange(tx) == IF tx.mode = "REDEMPTION" THEN -tx.units ELSE tx.units

amountChange(tx) == IF tx.mode = "REDEMPTION" THEN -tx.amount ELSE tx.amount

\* updateHoldings as an overwrite: ON CONFLICT DO UPDATE SET total_units =
\* EXCLUDED.total_units, losing what the row held.
UpdateHoldingsOverwrite(j) ==
  /\ jobs[j].pc = "updateHoldings"
  /\ LET tx == Head(jobs[j].queue).tx
     IN /\ holdings' = [holdings EXCEPT ![tx.folio] =
                          [@ EXCEPT !.present = TRUE,
                                    !.total_units = unitsChange(tx),
                                    !.invested_amount = amountChange(tx)]]
        /\ applied' = [applied EXCEPT ![tx.id] = @ + 1]
  /\ jobs' = [jobs EXCEPT ![j].pc = "updateCurrentValue"]
  /\ UNCHANGED <<txns, sips, schemeNav, today, executed>>
  /\ UNCHANGED <<orchVars, folioVars, navVars>>

\* Transaction.updateHoldings: INSERT ... ON CONFLICT (folio_id, scheme_id)
\* DO UPDATE adding the signed units and amount; updateCurrentValue is called.
UpdateHoldings(j) ==
  /\ jobs[j].pc = "updateHoldings"
  /\ LET tx == Head(jobs[j].queue).tx
     IN /\ holdings' = [holdings EXCEPT ![tx.folio] =
                          [@ EXCEPT !.present = TRUE,
                                    !.total_units = @ + unitsChange(tx),
                                    !.invested_amount = @ + amountChange(tx)]]
        /\ applied' = [applied EXCEPT ![tx.id] = @ + 1]
  /\ jobs' = [jobs EXCEPT ![j].pc = "updateCurrentValue"]
  /\ UNCHANGED <<txns, sips, schemeNav, today, executed>>
  /\ UNCHANGED <<orchVars, folioVars, navVars>>

\* updateCurrentValue repricing with the NAV that was passed to process().
UpdateCurrentValuePassedNav(j) ==
  /\ jobs[j].pc = "updateCurrentValue"
  /\ LET tx == Head(jobs[j].queue).tx
     IN holdings' = [holdings EXCEPT ![tx.folio].current_value =
                       IF holdings[tx.folio].present
                       THEN CurrentValue(holdings[tx.folio].total_units,
                                         Head(jobs[j].queue).nav)
                       ELSE @]
  /\ jobs' = [jobs EXCEPT ![j].pc =
                IF jobs[j].kind = "cams" THEN "updateCAMSStatus"
                ELSE "updateAfterExecution"]
  /\ UNCHANGED <<txns, sips, schemeNav, applied, today, executed>>
  /\ UNCHANGED <<orchVars, folioVars, navVars>>

\* Transaction.updateCurrentValue: current_value = total_units * schemes.nav.
\* process() returns: the settlement loop goes on to updateCAMSStatus,
\* SIP.execute to updateAfterExecution.
UpdateCurrentValue(j) ==
  /\ jobs[j].pc = "updateCurrentValue"
  /\ LET tx == Head(jobs[j].queue).tx
     IN holdings' = [holdings EXCEPT ![tx.folio].current_value =
                       IF holdings[tx.folio].present
                       THEN CurrentValue(holdings[tx.folio].total_units, schemeNav)
                       ELSE @]
  /\ jobs' = [jobs EXCEPT ![j].pc =
                IF jobs[j].kind = "cams" THEN "updateCAMSStatus"
                ELSE "updateAfterExecution"]
  /\ UNCHANGED <<txns, sips, schemeNav, applied, today, executed>>
  /\ UNCHANGED <<orchVars, folioVars, navVars>>

\* Transaction.updateCAMSStatus(PROCESSED | REJECTED) resolves; the
\* settlement loop goes on to the next transaction of its batch.
UpdateCAMSStatus(j) ==
  /\ jobs[j].pc \in {"updateCAMSStatus", "rejectCAMS"}
  /\ txns' = [txns EXCEPT ![Head(jobs[j].queue).tx.id] =
                [@ EXCEPT !.cams = IF jobs[j].pc = "rejectCAMS"
                                   THEN "REJECTED" ELSE "PROCESSED",
                          !.camsReferenceNumber = "generateCamsReference"]]
  /\ \E job \in CamsStep(Tail(jobs[j].queue)) : jobs' = [jobs EXCEPT ![j] = job]
  /\ UNCHANGED <<holdings, sips, schemeNav, applied, today, executed>>
  /\ UNCHANGED <<orchVars, folioVars, navVars>>

\* SIP.updateAfterExecution: execution_count, next_execution_date and status
\* are written from the in-memory registration; the loop goes on.
UpdateAfterExecution(j) ==
  /\ jobs[j].pc = "updateAfterExecution"
  /\ LET sip == Head(jobs[j].queue).sip
         newExecutionCount == sip.executionCount + 1
         nextExecutionDate ==
           getNextSipExecutionDate(sip.frequency, sip.nextExecutionDate)
         newStatus ==
           IF sip.maxExecutions # 0 /\ newExecutionCount >= sip.maxExecutions
           THEN "COMPLETED"
           ELSE IF sip.endDate # NullDate /\ nextExecutionDate > sip.endDate
           THEN "COMPLETED"
           ELSE sip.status
     IN /\ sips' = [sips EXCEPT ![sip.id] =
                      [@ EXCEPT !.executionCount = newExecutionCount,
                                !.nextExecutionDate =
                                   IF newStatus = "COMPLETED" THEN NullDate
                                   ELSE nextExecutionDate,
                                !.status = newStatus]]
        /\ executed' = [executed EXCEPT ![sip.id] = @ + 1]
  /\ jobs' = [jobs EXCEPT ![j] = SipStep(Tail(jobs[j].queue))]
  /\ UNCHANGED <<txns, holdings, schemeNav, applied, today>>
  /\ UNCHANGED <<orchVars, folioVars, navVars>>

\* The awaited storage statement of job j rejects.  The settlement tick has
\* one try block around its loop: the rest of the batch is dropped.  The SIP
\* tick catches per registration and goes on to the next one.  The audit has
\* one try block around its three queries and returns after logging.
StatementFails(j) ==
  /\ jobs[j] # IdleJob
  /\ jobs' = [jobs EXCEPT ![j] =
                IF jobs[j].kind \in {"cams", "audit"} THEN IdleJob
                ELSE SipStep(Tail(jobs[j].queue))]
  /\ UNCHANGED <<txns, holdings, sips, schemeNav, applied, today, executed>>
  /\ UNCHANGED <<orchVars, folioVars, navVars>>

\* The queries of performTransactionAudit, in order: orphaned transactions,
\* stale SUBMITTED transactions, holdings that differ from their PROCESSED
\* transactions.
AuditQueries == <<"orphaned", "stale", "inconsistency">>

\* The weekly audit job fires: performTransactionAudit awaits its first query.
PerformTransactionAudit ==
  /\ FreeJob # {}
  /\ jobs' = [jobs EXCEPT ![LowestFreeJob] =
                [kind |-> "audit", pc |-> AuditQueries[1], queue |-> <<>>]]
  /\ UNCHANGED <<txns, holdings, sips, schemeNav, applied, today, executed>>
  /\ UNCHANGED <<orchVars, folioVars, navVars>>

\* An audit whose last query is followed by a repair of the holdings it
\* found to differ: total_units reset to zero.
AuditQueryRepairs(j) ==
  /\ jobs[j].kind = "audit"
  /\ jobs' = [jobs EXCEPT ![j] =
                IF @.pc = AuditQueries[1] THEN [@ EXCEPT !.pc = AuditQueries[2]]
                ELSE IF @.pc = AuditQueries[2] THEN [@ EXCEPT !.pc = AuditQueries[3]]
                ELSE IdleJob]
  /\ holdings' = IF jobs[j].pc = AuditQueries[3]
                 THEN [f \in Folios |-> [holdings[f] EXCEPT !.total_units = 0]]
                 ELSE holdings
  /\ UNCHANGED <<txns, sips, schemeNav, applied, today, executed>>
  /\ UNCHANGED <<orchVars, folioVars, navVars>>

\* The awaited SELECT of the audit resolves: the next query is awaited; after
\* the last one the counts are logged and the job returns.
AuditQuery(j) ==
  /\ jobs[j].kind = "audit"
  /\ jobs' = [jobs EXCEPT ![j] =
                IF @.pc = AuditQueries[1] THEN [@ EXCEPT !.pc = AuditQueries[2]]
                ELSE IF @.pc = AuditQueries[2] THEN [@ EXCEPT !.pc = AuditQueries[3]]
                ELSE IdleJob]
  /\ holdings' = holdings
  /\ UNCHANGED <<txns, sips, schemeNav, applied, today, executed>>
  /\ UNCHANGED <<orchVars, folioVars, navVars>>

\* Scheme.updateNAV: UPDATE schemes SET nav.
UpdateNAV(nav) ==
  /\ nav # schemeNav
  /\ schemeNav' = nav
  /\ UNCHANGED <<txns, holdings, sips, jobs, applied, today, executed>>
  /\ UNCHANGED <<orchVars, folioVars, navVars>>

\* The calendar reaches next_execution_date of registration s.
SipComesDue(s) ==
  /\ sips[s].nextExecutionDate # NullDate
  /\ today < sips[s].nextExecutionDate
  /\ today' = sips[s].nextExecutionDate
  /\ UNCHANGED <<txns, holdings, sips, schemeNav, jobs, applied, executed>>
  /\ UNCHANGED <<orchVars, folioVars, navVars>>

----------------------------------------------------------------------------

\* SIP.updateStatus: UPDATE sip_registrations SET status = newStatus WHERE id = s.
updateStatus(s, newStatus) == [sips EXCEPT ![s].status = newStatus]

\* SIP.pause
SipPause(s) ==
  /\ sips' = updateStatus(s, "PAUSED")
  /\ UNCHANGED <<txns, holdings, schemeNav, jobs, applied, today, executed>>
  /\ UNCHANGED <<orchVars, folioVars, navVars>>

\* SIP.resume
SipResume(s) ==
  /\ sips' = updateStatus(s, "ACTIVE")
  /\ UNCHANGED <<txns, holdings, schemeNav, jobs, applied, today, executed>>
  /\ UNCHANGED <<orchVars, folioVars, navVars>>

\* SIP.cancel
SipCancel(s) ==
  /\ sips' = updateStatus(s, "CANCELLED")
  /\ UNCHANGED <<txns, holdings, schemeNav, jobs, applied, today, executed>>
  /\ UNCHANGED <<orchVars, folioVars, navVars>>

----------------------------------------------------------------------------
(* Part III: folio creation *)

MaxFolioRows  == 4   \* rows of table folios
MaxFolioCalls == 2   \* folio-creation calls in flight at once

\* config.simulation.maxFoliosPerCustomer (MAX_FOLIOS_PER_CUSTOMER, default 100).
maxFoliosPerCustomer == 2

\* Rows of table customers.
Customers == {1, 2}

FolioPaths == {"new", "existing", "manual"}

IdleCall == [pc |-> "idle", path |-> "none", customerId |-> 0, remaining |-> 0]

\* COUNT(f.id) over the customer's folios with f.status = 'ACTIVE'.
ActiveFolioCount(c) ==
  Cardinality({i \in 1..Len(folioRows) :
                 folioRows[i].customerId = c /\ folioRows[i].status = "ACTIVE"})

\* Customer.findAll(limit): the latest customers, whatever folios they hold.
findAll == Customers

\* The same query without its HAVING clause.
getCustomersEligibleForNewFolioAll(maxFolios) ==
  Customers

\* Customer.getCustomersEligibleForNewFolio(maxFolios):
\* ... LEFT JOIN folios f ON ... AND f.status = 'ACTIVE' ... HAVING COUNT(f.id) < $1
getCustomersEligibleForNewFolio(maxFolios) ==
  {c \in Customers : ActiveFolioCount(c) < maxFolios}

FreeCall == {k \in 1..MaxFolioCalls : folioCalls[k] = IdleCall}

\* createFolioForNewCustomer up to its Folio.create: the customer is a random
\* element of Customer.findAll(10).  (The session counter and the optional
\* registration of the new folio are statements of the Part I scripts.)
CreateFolioForNewCustomer(k, c) ==
  /\ k \in FreeCall
  /\ c \in findAll
  /\ folioCalls' = [folioCalls EXCEPT ![k] =
                      [pc |-> "create", path |-> "new", customerId |-> c,
                       remaining |-> 1]]
  /\ UNCHANGED folioRows
  /\ UNCHANGED <<orchVars, txVars, navVars>>

\* createFolioForExistingCustomer up to its Folio.create: the customer is a
\* random element of getCustomersEligibleForNewFolio(maxFoliosPerCustomer);
\* the call returns when that list is empty.
CreateFolioForExistingCustomer(k, c) ==
  /\ k \in FreeCall
  /\ c \in getCustomersEligibleForNewFolio(maxFoliosPerCustomer)
  /\ folioCalls' = [folioCalls EXCEPT ![k] =
                      [pc |-> "create", path |-> "existing", customerId |-> c,
                       remaining |-> 1]]
  /\ UNCHANGED folioRows
  /\ UNCHANGED <<orchVars, txVars, navVars>>

\* createFolios(count), first pass of its loop up to Folio.create: the
\* customer is a random element of Customer.findAll(50).
CreateFolios(k, count, c) ==
  /\ k \in FreeCall
  /\ c \in findAll
  /\ folioCalls' = [folioCalls EXCEPT ![k] =
                      [pc |-> "create", path |-> "manual", customerId |-> c,
                       remaining |-> count]]
  /\ UNCHANGED folioRows
  /\ UNCHANGED <<orchVars, txVars, navVars>>

\* Folio.create resolves: INSERT INTO folios with status ACTIVE.  createFolios
\* goes on with the next pass of its loop, the two tick paths return.
FolioCreate(k) ==
  /\ folioCalls[k].pc = "create"
  /\ Len(folioRows) < MaxFolioRows
  /\ folioRows' = Append(folioRows,
                         [customerId |-> folioCalls[k].customerId,
                          status |-> "ACTIVE"])
  /\ folioCalls' = [folioCalls EXCEPT ![k] =
                      IF @.path = "manual" /\ @.remaining > 1
                      THEN [@ EXCEPT !.pc = "findAll", !.remaining = @ - 1]
                      ELSE IdleCall]
  /\ UNCHANGED <<orchVars, txVars, navVars>>

\* createFolios, a later pass of its loop: Customer.findAll(50) again.
CreateFoliosNext(k, c) ==
  /\ folioCalls[k].pc = "findAll"
  /\ c \in findAll
  /\ folioCalls' = [folioCalls EXCEPT ![k] =
                      [@ EXCEPT !.pc = "create", !.customerId = c]]
  /\ UNCHANGED folioRows
  /\ UNCHANGED <<orchVars, txVars, navVars>>

\* An awaited statement of call k rejects: the tick paths log it, createFolios
\* rethrows it; either way the call is over.
FolioStatementFails(k) ==
  /\ folioCalls[k] # IdleCall
  /\ folioCalls' = [folioCalls EXCEPT ![k] = IdleCall]
  /\ UNCHANGED folioRows
  /\ UNCHANGED <<orchVars, txVars, navVars>>

\* Folio.close: update({ status: 'CLOSED' }).
FolioClose(i) ==
  /\ i <= Len(folioRows)
  /\ folioRows[i].status = "ACTIVE"
  /\ folioRows' = [folioRows EXCEPT ![i].status = "CLOSED"]
  /\ UNCHANGED folioCalls
  /\ UNCHANGED <<orchVars, txVars, navVars>>

\* No folio yet, no call in flight.
FolioInit ==
  /\ folioRows = <<>>
  /\ folioCalls = [k \in 1..MaxFolioCalls |-> IdleCall]

----------------------------------------------------------------------------
(* Part III: the NAV-update task *)

MaxNavTicks == 2   \* NAV-update callbacks started in one behaviour
MaxNavJobs  == 2   \* NAV-update callbacks in flight at once
MaxNavDays  == 1   \* midnights passed in one behaviour

\* Math.max(newNav, 1.0000).  NAVs are DECIMAL(10,4): they are counted in
\* ten-thousandths.
NavFloor == 10000

\* Rows of table schemes (is_active = true), in the order of findAll.
SchemeIds == {1, 2}

Categories == {"EQUITY", "DEBT", "HYBRID", "OTHER"}

\* Math.random(), in thousandths.
Draws == {0, 500, 975}

\* The daily change of simulateNAVMovement in hundred-thousandths:
\* (Math.random() - 0.5) * 0.04, * 0.004, * 0.02 and, by default, * 0.02.
Change(category, r) ==
  CASE category = "EQUITY" -> (r - 500) * 4
    [] category = "DEBT"   -> ((r - 500) * 4) \div 10
    [] category = "HYBRID" -> (r - 500) * 2
    [] OTHER               -> (r - 500) * 2

\* parseFloat((this.nav * (1 + change)).toFixed(4)): the product rounded to
\* the nearest ten-thousandth.
MovedNav(nav, category, r) ==
  nav + ((2 * nav * Change(category, r) + 100000) \div 200000)

\* Scheme.simulateNAVMovement without its last line's Math.max.
simulateNAVMovementNoFloor(nav, category, r) ==
  MovedNav(nav, category, r)

\* Scheme.simulateNAVMovement
simulateNAVMovement(nav, category, r) ==
  IF MovedNav(nav, category, r) > NavFloor
  THEN MovedNav(nav, category, r)
  ELSE NavFloor

IdleNavJob == [pc |-> "idle", queue |-> <<>>, newNav |-> 0]

\* new Scheme(row) of the row of scheme s.
SchemeObject(s) ==
  [id |-> s, nav |-> schemeRows[s].nav, category |-> schemeRows[s].category]

\* Scheme.findAll(): the active schemes, as objects.
SchemeFindAll == [i \in 1..Cardinality(SchemeIds) |-> SchemeObject(i)]

FreeNavJob == {k \in 1..MaxNavJobs : navJobs[k] = IdleNavJob}

\* The rows of nav_history for scheme s and day d.
HistoryRows(s, d) ==
  {i \in 1..Len(navHistory) :
     navHistory[i].schemeId = s /\ navHistory[i].navDate = d}

\* INSERT INTO nav_history ... ON CONFLICT (scheme_id, nav_date)
\* DO UPDATE SET nav = EXCLUDED.nav
Upsert(s, d, nav) ==
  IF HistoryRows(s, d) # {}
  THEN [i \in 1..Len(navHistory) |->
          IF i \in HistoryRows(s, d)
          THEN [navHistory[i] EXCEPT !.nav = nav]
          ELSE navHistory[i]]
  ELSE Append(navHistory, [schemeId |-> s, navDate |-> d, nav |-> nav])

\* The navUpdates timer fires: Scheme.findAll() resolves and the loop over
\* the scheme objects begins.
StartNAVUpdates(k) ==
  /\ navTicks < MaxNavTicks
  /\ k \in FreeNavJob
  /\ \A other \in FreeNavJob : k <= other
  /\ navTicks' = navTicks + 1
  /\ navJobs' = [navJobs EXCEPT ![k] =
                   [pc |-> "updateNAV", queue |-> SchemeFindAll, newNav |-> 0]]
  /\ UNCHANGED <<schemeRows, navHistory, navDate, mutatedOn>>
  /\ UNCHANGED <<orchVars, txVars, folioVars>>

\* scheme.simulateNAVMovement() on the object read by findAll, then
\* Scheme.updateNAV up to its second await: UPDATE schemes SET nav resolves.
SchemeUpdateNAV(k, r) ==
  /\ navJobs[k].pc = "updateNAV"
  /\ LET scheme == Head(navJobs[k].queue)
         newNav == simulateNAVMovement(scheme.nav, scheme.category, r)
     IN /\ schemeRows' = [schemeRows EXCEPT ![scheme.id].nav = newNav]
        /\ mutatedOn' = mutatedOn \cup {<<scheme.id, navDate>>}
        /\ navJobs' = [navJobs EXCEPT ![k] =
                         [@ EXCEPT !.pc = "insertNAVHistory", !.newNav = newNav]]
  /\ UNCHANGED <<navHistory, navDate, navTicks>>
  /\ UNCHANGED <<orchVars, txVars, folioVars>>

\* Scheme.insertNAVHistory(newNav) resolves, with navDate = new Date() taken
\* when it is called; the loop goes on with the next scheme object.
InsertNAVHistory(k) ==
  /\ navJobs[k].pc = "insertNAVHistory"
  /\ navHistory' = Upsert(Head(navJobs[k].queue).id, navDate, navJobs[k].newNav)
  /\ navJobs' = [navJobs EXCEPT ![k] =
                   IF Tail(@.queue) = <<>> THEN IdleNavJob
                   ELSE [pc |-> "updateNAV", queue |-> Tail(@.queue), newNav |-> 0]]
  /\ UNCHANGED <<schemeRows, navDate, mutatedOn, navTicks>>
  /\ UNCHANGED <<orchVars, txVars, folioVars>>

\* The awaited statement of job k rejects: updateNAV rethrows, the callback's
\* one try block around the loop logs the error and the callback is over.
NavStatementFails(k) ==
  /\ navJobs[k] # IdleNavJob
  /\ navJobs' = [navJobs EXCEPT ![k] = IdleNavJob]
  /\ UNCHANGED <<schemeRows, navHistory, navDate, mutatedOn, navTicks>>
  /\ UNCHANGED <<orchVars, txVars, folioVars>>

\* Midnight passes.
NextDay ==
  /\ navDate < MaxNavDays
  /\ navDate' = navDate + 1
  /\ UNCHANGED <<schemeRows, navHistory, navJobs, mutatedOn, navTicks>>
  /\ UNCHANGED <<orchVars, txVars, folioVars>>

\* Table schemes with an EQUITY scheme at NAV nav and a DEBT scheme at its
\* default NAV (getDefaultSchemes), no history row, no callback in flight.
NavInit(nav) ==
  /\ schemeRows = [s \in SchemeIds |->
                     IF s = 1 THEN [nav |-> nav, category |-> "EQUITY"]
                     ELSE [nav |-> 114500, category |-> "DEBT"]]
  /\ navHistory = <<>>
  /\ navJobs = [k \in 1..MaxNavJobs |-> IdleNavJob]
  /\ navDate = 0
  /\ mutatedOn = {}
  /\ navTicks = 0

\* An EQUITY default NAV (15.2500).
DefaultNav == 152500

\* new SimulationService(): the constructor.
OrchInit ==
  /\ isRunning = FALSE
  /\ isPaused = FALSE
  /\ startTime = 0
  /\ intervals = NoIntervals
  /\ stats = ZeroStats
  /\ timers = {}
  /\ starts = [pc \in SeedPcs |-> 0]
  /\ bodies = [b \in 1..MaxBodies |-> IdleBody]
  /\ dbWrites = [t \in Tables |-> 0]
  /\ fired = 0
  /\ last = "none"
  /\ quiesced = FALSE

\* The start date of the registration, and the date the calendar starts at.
StartDate == DateOf(2024, 1)

\* SIP.create: a registration of folio 1, ACTIVE, next execution on its
\* start date, nothing executed yet.  maxExecutions 0 stands for NULL.
NewSip(frequency, endDate, maxExecutions) ==
  [folio |-> 1, amount |-> 500, frequency |-> frequency,
   nextExecutionDate |-> StartDate, endDate |-> endDate,
   executionCount |-> 0, maxExecutions |-> maxExecutions, status |-> "ACTIVE"]

\* The tables with no transaction and no holding yet, the registration sip,
\* the scheme at its default NAV and no callback in flight.
TxInit(sip) ==
  /\ txns = <<>>
  /\ holdings = [f \in Folios |-> NoHolding]
  /\ sips = [s \in SipIds |-> sip]
  /\ schemeNav = 10
  /\ jobs = [j \in 1..MaxJobs |-> IdleJob]
  /\ applied = [i \in 1..MaxTx |-> 0]
  /\ today = StartDate
  /\ executed = [s \in SipIds |-> 0]

Init ==
  /\ OrchInit
  /\ TxInit(NewSip("MONTHLY", NullDate, 2))
  /\ FolioInit
  /\ NavInit(DefaultNav)

Next ==
  \/ Start
  \/ \E pc \in SeedPcs : SeedOk(pc)
  \/ \E pc \in SeedPcs : SeedFail(pc)
  \/ Stop
  \/ Pause
  \/ Resume
  \/ Reset
  \/ \E task \in TaskNames : TickFire(task)
  \/ \E b \in 1..MaxBodies : BodyOk(b)
  \/ \E b \in 1..MaxBodies : BodyFail(b)

Spec == Init /\ [][Next]_vars

\* The orchestrator state machine with the manual triggers in place of the
\* timer callbacks.
ManualNext ==
  \/ Start
  \/ \E pc \in SeedPcs : SeedOk(pc)
  \/ \E pc \in SeedPcs : SeedFail(pc)
  \/ Stop
  \/ Pause
  \/ Resume
  \/ Reset
  \/ \E name \in ManualNames, count \in 1..MaxCount : ManualCall(name, count)
  \/ \E b \in 1..MaxBodies : BodyOk(b)
  \/ \E b \in 1..MaxBodies : ManualFail(b)

ManualSpec == Init /\ [][ManualNext]_vars

TxNext ==
  \/ \E f \in Folios, m \in GenModes, a \in Amounts : CreateTransaction(f, m, a)
  \/ \E k \in 1..MaxTx : StartCAMSProcessing(k)
  \/ StartSIPExecution
  \/ \E j \in 1..MaxJobs : Execute(j)
  \/ \E j \in 1..MaxJobs : Process(j)
  \/ \E j \in 1..MaxJobs : UpdateHoldings(j)
  \/ \E j \in 1..MaxJobs : UpdateCurrentValue(j)
  \/ \E j \in 1..MaxJobs : UpdateCAMSStatus(j)
  \/ \E j \in 1..MaxJobs : UpdateAfterExecution(j)
  \/ \E j \in 1..MaxJobs : StatementFails(j)
  \/ \E n \in Navs : UpdateNAV(n)
  \/ \E s \in SipIds : SipComesDue(s)

TxSpec == Init /\ [][TxNext]_vars

\* End dates a registration is created with.
EndDates == {NullDate, DateOf(2024, 2)}

\* max_executions a registration is created with (0: NULL).
MaxExecutionsValues == {0, 1, 2}

SipInit ==
  /\ OrchInit
  /\ \E frequency \in Frequencies, endDate \in EndDates,
        maxExecutions \in MaxExecutionsValues :
       TxInit(NewSip(frequency, endDate, maxExecutions))
  /\ FolioInit
  /\ NavInit(DefaultNav)

\* The life of a SIP registration: the SIP-execution task, the calendar and
\* pause(), resume() and cancel().
SipNext ==
  \/ StartSIPExecution
  \/ \E j \in 1..MaxJobs : Execute(j)
  \/ \E j \in 1..MaxJobs : Process(j)
  \/ \E j \in 1..MaxJobs : UpdateHoldings(j)
  \/ \E j \in 1..MaxJobs : UpdateCurrentValue(j)
  \/ \E j \in 1..MaxJobs : UpdateAfterExecution(j)
  \/ \E j \in 1..MaxJobs : StatementFails(j)
  \/ \E s \in SipIds : SipComesDue(s)
  \/ \E s \in SipIds : SipPause(s)
  \/ \E s \in SipIds : SipResume(s)
  \/ \E s \in SipIds : SipCancel(s)

SipSpec == SipInit /\ [][SipNext]_vars

\* Folio creation: the two paths of the folioCreation tick, createFolios(n)
\* and Folio.close, in any interleaving.
FolioInitAll ==
  /\ OrchInit
  /\ TxInit(NewSip("MONTHLY", NullDate, 2))
  /\ FolioInit
  /\ NavInit(DefaultNav)

FolioNext ==
  \/ \E k \in 1..MaxFolioCalls, c \in Customers : CreateFolioForNewCustomer(k, c)
  \/ \E k \in 1..MaxFolioCalls, c \in Customers : CreateFolioForExistingCustomer(k, c)
  \/ \E k \in 1..MaxFolioCalls, count \in 1..MaxCount, c \in Customers :
       CreateFolios(k, count, c)
  \/ \E k \in 1..MaxFolioCalls : FolioCreate(k)
  \/ \E k \in 1..MaxFolioCalls, c \in Customers : CreateFoliosNext(k, c)
  \/ \E k \in 1..MaxFolioCalls : FolioStatementFails(k)
  \/ \E i \in 1..MaxFolioRows : FolioClose(i)

FolioSpec == FolioInitAll /\ [][FolioNext]_vars

\* The stored NAVs the EQUITY scheme starts from: below the floor (table
\* schemes has no CHECK on nav), on it, just above it, and a default NAV.
StartNavs == {9000, NavFloor, 10100, DefaultNav}

NavInitAll ==
  /\ OrchInit
  /\ TxInit(NewSip("MONTHLY", NullDate, 2))
  /\ FolioInit
  /\ \E nav \in StartNavs : NavInit(nav)

\* The NAV-update task and the calendar.
NavNext ==
  \/ \E k \in 1..MaxNavJobs : StartNAVUpdates(k)
  \/ \E k \in 1..MaxNavJobs, r \in Draws : SchemeUpdateNAV(k, r)
  \/ \E k \in 1..MaxNavJobs : InsertNAVHistory(k)
  \/ \E k \in 1..MaxNavJobs : NavStatementFails(k)
  \/ NextDay

NavSpec == NavInitAll /\ [][NavNext]_vars

\* Settlement with the weekly transaction audit running beside it.
AuditNext ==
  \/ \E f \in Folios, m \in GenModes, a \in Amounts : CreateTransaction(f, m, a)
  \/ \E k \in 1..MaxTx : StartCAMSProcessing(k)
  \/ \E j \in 1..MaxJobs : Process(j)
  \/ \E j \in 1..MaxJobs : UpdateHoldings(j)
  \/ \E j \in 1..MaxJobs : UpdateCurrentValue(j)
  \/ \E j \in 1..MaxJobs : UpdateCAMSStatus(j)
  \/ \E j \in 1..MaxJobs : StatementFails(j)
  \/ PerformTransactionAudit
  \/ \E j \in 1..MaxJobs : AuditQuery(j)

AuditSpec == Init /\ [][AuditNext]_vars

\* Settlement and SIP execution with no failing storage call.
LiveNext ==
  \/ \E f \in Folios, m \in GenModes, a \in Amounts : CreateTransaction(f, m, a)
  \/ \E k \in 1..MaxTx : StartCAMSProcessing(k)
  \/ StartSIPExecution
  \/ \E j \in 1..MaxJobs : Execute(j)
  \/ \E j \in 1..MaxJobs : Process(j)
  \/ \E j \in 1..MaxJobs : UpdateHoldings(j)
  \/ \E j \in 1..MaxJobs : UpdateCurrentValue(j)
  \/ \E j \in 1..MaxJobs : UpdateCAMSStatus(j)
  \/ \E j \in 1..MaxJobs : UpdateAfterExecution(j)

\* Every awaited storage call resolves, so a callback in flight takes its
\* next step; the settlement timer (setInterval, 60 s) keeps firing, and
\* every row ends up older than the five-minute cutoff of findPendingForCAMS.
LiveFairness ==
  /\ \A j \in 1..MaxJobs :
       /\ WF_vars(Execute(j))
       /\ WF_vars(Process(j))
       /\ WF_vars(UpdateHoldings(j))
       /\ WF_vars(UpdateCurrentValue(j))
       /\ WF_vars(UpdateCAMSStatus(j))
       /\ WF_vars(UpdateAfterExecution(j))
  /\ WF_vars(StartCAMSProcessing(Len(txns)))

LiveSpec == Init /\ [][LiveNext]_vars /\ LiveFairness

TypeOK ==
  /\ isRunning \in BOOLEAN
  /\ isPaused \in BOOLEAN
  /\ startTime \in {0} \cup ClockReadings
  /\ DOMAIN intervals \in {{}, TaskNames}
  /\ \A n \in DOMAIN intervals : intervals[n] \in TimerIds
  /\ \A t \in timers : t.id \in TimerIds /\ t.task \in TaskNames
  /\ \A s \in StatNames : stats[s] \in Nat
  /\ fired \in 0..MaxTicks
  /\ Len(txns) <= MaxTx
  /\ \A i \in 1..Len(txns) :
       /\ txns[i].folio \in Folios
       /\ txns[i].status \in {"SUBMITTED", "PROCESSED"}
       /\ txns[i].cams \in {"PENDING", "PROCESSED", "REJECTED"}
  /\ \A s \in SipIds : sips[s].status \in {"ACTIVE", "PAUSED", "CANCELLED", "COMPLETED"}
  /\ schemeNav \in Navs
  /\ \A j \in 1..MaxJobs : jobs[j].kind \in {"idle", "cams", "sip", "audit"}
  /\ Len(folioRows) <= MaxFolioRows
  /\ \A i \in 1..Len(folioRows) :
       /\ folioRows[i].customerId \in Customers
       /\ folioRows[i].status \in {"ACTIVE", "CLOSED"}
  /\ \A k \in 1..MaxFolioCalls :
       folioCalls[k].pc \in {"idle", "create", "findAll"}
  /\ \A s \in SchemeIds :
       schemeRows[s].nav \in Nat /\ schemeRows[s].category \in Categories
  /\ \A i \in 1..Len(navHistory) :
       navHistory[i].schemeId \in SchemeIds /\ navHistory[i].navDate \in 0..MaxNavDays
  /\ \A k \in 1..MaxNavJobs :
       navJobs[k].pc \in {"idle", "updateNAV", "insertNAVHistory"}
  /\ navDate \in 0..MaxNavDays
  /\ navTicks \in 0..MaxNavTicks

----------------------------------------------------------------------------
(* Claims about the orchestrator, checked under Spec *)

\* The session state a misuse call must leave alone.
Session == <<isRunning, isPaused, startTime, intervals, timers, stats>>

\* The six tasks are registered, each registry entry is a live timer, and
\* nothing else is alive.
SixActive ==
  /\ DOMAIN intervals = TaskNames
  /\ timers = {[id |-> intervals[n], task |-> n] : n \in TaskNames}

\* C1: recurring task timers are live only while isRunning and not isPaused;
\* each task name has at most one live timer, the one the registry holds; no
\* live timer is unreferenced by the registry.
C1_TimerDiscipline ==
  /\ timers # {} => (isRunning /\ ~isPaused)
  /\ \A n \in TaskNames : Cardinality({t \in timers : t.task = n}) <= 1
  /\ \A t \in timers : t.task \in DOMAIN intervals /\ intervals[t.task] = t.id

\* C2: a misuse call - start() while running, stop() while stopped, pause()
\* while stopped or paused, resume() while stopped or not paused - leaves
\* isRunning, isPaused, startTime, the registry, the live timers and the
\* session counters as they were.
C2_MisuseNoEffect ==
  [][ ( \/ (Start /\ isRunning)
        \/ (Stop /\ ~isRunning)
        \/ (Pause /\ (~isRunning \/ isPaused))
        \/ (Resume /\ (~isRunning \/ ~isPaused)) )
      => UNCHANGED Session ]_vars

\* C2 witness: start() was refused on a running simulation that has live
\* timers and a session counter above zero.
C2_Witness ==
  /\ last = "start: warn Simulation is already running"
  /\ isRunning /\ timers # {} /\ startTime # 0
  /\ \E c \in StatNames : stats[c] > 0

\* C3: pause() on a STOPPED simulation throws "not running"; resume() on a
\* RUNNING, not paused simulation returns with a warning and changes nothing;
\* start() on a RUNNING simulation returns with a warning and changes nothing.
C3_MisuseOutcomes ==
  [][ /\ (Pause /\ ~isRunning)
         => last' = "pause: throw Simulation is not running"
      /\ (Resume /\ isRunning /\ ~isPaused)
         => (last' = "resume: warn Simulation is not paused" /\ UNCHANGED Session)
      /\ (Start /\ isRunning)
         => (last' = "start: warn Simulation is already running" /\ UNCHANGED Session)
    ]_vars

\* C3 witness: pause() has thrown on a stopped simulation.
C3_Witness ==
  /\ last = "pause: throw Simulation is not running"
  /\ ~isRunning

\* C4: after start() completes and after resume() from PAUSED exactly the six
\* tasks are registered and active, with isRunning and not isPaused after
\* resume(); after pause() no task is active, isRunning is still true and
\* isPaused is true.
C4_StartPauseResume ==
  [][ /\ (\E pc \in SeedPcs : SeedOk(pc) /\ Suspended' < Suspended) => SixActive'
      /\ (Resume /\ isRunning /\ isPaused)
         => (SixActive' /\ isRunning' /\ ~isPaused')
      /\ (Pause /\ isRunning /\ ~isPaused)
         => (timers' = {} /\ isRunning' /\ isPaused')
    ]_vars

\* C5: when seeding fails the error propagates to the caller of start() and
\* the orchestrator is then stopped with no task registered or active.
C5_SeedFailureStops ==
  [][ (\E pc \in SeedPcs : SeedFail(pc))
      => /\ last' = "start: throw initializeSchemes"
         /\ ~isRunning'
         /\ DOMAIN intervals' = {}
         /\ timers' = {}
    ]_vars

\* C6: reset() ends with isRunning and isPaused false, startTime cleared, the
\* five counters zero and no task active, and writes no row.
C6_ResetClears ==
  [][ Reset
      => /\ ~isRunning' /\ ~isPaused' /\ startTime' = 0
         /\ stats' = ZeroStats
         /\ timers' = {}
         /\ dbWrites' = dbWrites
    ]_vars

\* C7: a tick body that throws is caught at the task boundary: the registry
\* and every live timer (its own and the other tasks') stay as they are, so
\* later ticks can fire, and isRunning and isPaused do not change.
C7_TickErrorIsolated ==
  [][ (\E b \in 1..MaxBodies : BodyFail(b))
      => /\ UNCHANGED <<isRunning, isPaused, intervals, timers>>
         /\ last' = "caught: tick error"
    ]_vars

\* C7 witness: a tick error was caught while the simulation runs with all
\* six timers registered and alive.
C7_Witness ==
  /\ last = "caught: tick error"
  /\ isRunning /\ ~isPaused
  /\ SixActive

\* C8: stop() and pause() leave every in-flight tick body, the rows written
\* and the session counters as they are, and no tick body begins between an
\* effective stop()/pause() and the next effective start()/resume().
C8_InFlightKeptNoLateTick ==
  [][ /\ (Stop \/ Pause)
         => (bodies' = bodies /\ dbWrites' = dbWrites /\ stats' = stats)
      /\ (\E task \in TaskNames : TickFire(task)) => ~quiesced
    ]_vars

----------------------------------------------------------------------------
(* Claims about settlement and holdings, checked under TxSpec *)

\* The signed contribution of row i as table transactions records it.
RowUnits(i) ==
  IF txns[i].mode = "REDEMPTION" THEN -txns[i].units ELSE txns[i].units

RowAmount(i) ==
  IF txns[i].mode = "REDEMPTION" THEN -txns[i].amount ELSE txns[i].amount

\* Sum of the signed units / amounts of the rows of set S.
RECURSIVE SumUnits(_)
SumUnits(S) ==
  IF S = {} THEN 0
  ELSE LET i == CHOOSE x \in S : TRUE
       IN RowUnits(i) + SumUnits(S \ {i})

RECURSIVE SumAmounts(_)
SumAmounts(S) ==
  IF S = {} THEN 0
  ELSE LET i == CHOOSE x \in S : TRUE
       IN RowAmount(i) + SumAmounts(S \ {i})

ProcessedRows(f) ==
  {i \in 1..Len(txns) : txns[i].folio = f /\ txns[i].status = "PROCESSED"}

AppliedRows(f) ==
  {i \in 1..Len(txns) : txns[i].folio = f /\ applied[i] >= 1}

\* No process() call on folio f is part-way: every PROCESSED row of the
\* folio has had its holdings upsert applied.
ProcessingComplete(f) == \A i \in ProcessedRows(f) : applied[i] >= 1

\* C9: for every (folio, scheme), once the processing steps on it are
\* complete, Holding.total_units equals the sum of +units over its PROCESSED
\* purchases minus the sum of units over its PROCESSED redemptions.
C9_HoldingsConservation ==
  \A f \in Folios :
    ProcessingComplete(f)
      => holdings[f].total_units = SumUnits(ProcessedRows(f))

\* C10: processing is idempotent - however many times process(nav) has run
\* for a transaction, the Holding of its folio carries the total_units and
\* invested_amount that one run per transaction gives.
C10_ProcessIdempotent ==
  \A f \in Folios :
    /\ holdings[f].total_units = SumUnits(AppliedRows(f))
    /\ holdings[f].invested_amount = SumAmounts(AppliedRows(f))

\* C11: under overlapping firings of the settlement task each transaction is
\* processed at most once - its signed contribution is added to its Holding
\* at most once, and the UPDATE of process() never runs on a row whose
\* stored status is already PROCESSED.
C11_ProcessedAtMostOnce ==
  [][ /\ \A i \in 1..MaxTx : applied'[i] <= 1
      /\ \A j \in 1..MaxJobs :
           (Process(j) /\ jobs[j].kind = "cams")
             => txns[Head(jobs[j].queue).tx.id].status # "PROCESSED"
    ]_vars

\* Sum over the rows of S of the signed units / amounts, each counted as
\* often as a holdings upsert was made for the row.
RECURSIVE SumAppliedUnits(_)
SumAppliedUnits(S) ==
  IF S = {} THEN 0
  ELSE LET i == CHOOSE x \in S : TRUE
       IN applied[i] * RowUnits(i) + SumAppliedUnits(S \ {i})

RECURSIVE SumAppliedAmounts(_)
SumAppliedAmounts(S) ==
  IF S = {} THEN 0
  ELSE LET i == CHOOSE x \in S : TRUE
       IN applied[i] * RowAmount(i) + SumAppliedAmounts(S \ {i})

FolioRows(f) == {i \in 1..Len(txns) : txns[i].folio = f}

\* C12: no lost update - whatever the interleaving of process() calls of the
\* settlement task and of SIP execution on one (folio, scheme), the Holding's
\* total_units and invested_amount are the sum of every signed contribution
\* that was upserted.
C12_NoLostUpdate ==
  \A f \in Folios :
    /\ holdings[f].total_units = SumAppliedUnits(FolioRows(f))
    /\ holdings[f].invested_amount = SumAppliedAmounts(FolioRows(f))

\* C12 witness: two process() calls on two different transactions of one
\* folio, one from the settlement task and one from SIP execution, are both
\* in flight and both have made their holdings upsert.
C12_Witness ==
  \E j, k \in 1..MaxJobs :
    /\ jobs[j].kind = "cams" /\ jobs[k].kind = "sip"
    /\ jobs[j].pc = "updateCurrentValue" /\ jobs[k].pc = "updateCurrentValue"
    /\ Head(jobs[j].queue).tx.folio = Head(jobs[k].queue).tx.folio
    /\ Head(jobs[j].queue).tx.id # Head(jobs[k].queue).tx.id
    /\ holdings[Head(jobs[j].queue).tx.folio].total_units
         = unitsChange(Head(jobs[j].queue).tx) + unitsChange(Head(jobs[k].queue).tx)

\* C13: settlement round trip - when a settlement firing has drawn success
\* for a transaction of amount A and NAV n and its updateCAMSStatus has
\* resolved, the row is PROCESSED / PROCESSED with a settlement reference and
\* units = A/n to six decimals, and its Holding has received the contribution
\* (units, A) exactly once; the repricing step leaves current_value =
\* total_units * scheme NAV.
C13_SettlementRoundTrip ==
  [][ \A j \in 1..MaxJobs :
        /\ (UpdateCAMSStatus(j) /\ jobs[j].pc = "updateCAMSStatus")
             => LET i == Head(jobs[j].queue).tx.id
                IN /\ txns'[i].status = "PROCESSED"
                   /\ txns'[i].cams = "PROCESSED"
                   /\ txns'[i].camsReferenceNumber # "none"
                   /\ txns'[i].units = calculateUnits(txns'[i].amount, txns'[i].nav)
                   /\ applied'[i] = 1
        /\ (UpdateCurrentValue(j) /\ jobs[j].kind = "cams")
             => LET f == Head(jobs[j].queue).tx.folio
                IN holdings'[f].current_value
                     = CurrentValue(holdings'[f].total_units, schemeNav')
    ]_vars

----------------------------------------------------------------------------
(* Claims about SIP registrations, checked under SipSpec *)

\* The purchases SIP.execute has created for registration s.
Purchases(s) ==
  Cardinality({i \in 1..Len(txns) :
                 txns[i].mode = "SIP" /\ txns[i].folio = sips[s].folio})

\* findDueForExecution returns registration s.
IsDue(s) ==
  \E i \in 1..Len(findDueForExecution) : findDueForExecution[i].sip.id = s

\* C14: SIP termination - for a registration with maxExecutions = N, the
\* N-th execute() that returns leaves it COMPLETED with no next execution
\* date; from then on findDueForExecution never returns it; and never more
\* than N purchases are created for it.
C14_SipTermination ==
  [][ \A s \in SipIds :
        sips[s].maxExecutions # 0 =>
          /\ (executed'[s] = sips[s].maxExecutions /\ executed[s] # executed'[s])
               => /\ sips'[s].status = "COMPLETED"
                  /\ sips'[s].nextExecutionDate = NullDate
          /\ executed'[s] >= sips[s].maxExecutions => ~IsDue(s)'
          /\ Purchases(s)' <= sips[s].maxExecutions
    ]_vars

\* The registration row that execute() of job j is about.
ExecutingSip(j) == Head(jobs[j].queue).sip.id

\* C15: every successful execute() raises the registration's executionCount
\* by exactly one and decides the next state in this order: maxExecutions set
\* and reached by the new count - COMPLETED with no next date; else endDate set
\* and exceeded by the advanced date - COMPLETED with no next date; else ACTIVE
\* with the date advanced by the frequency (+1 month, +3 months, +1 year).
C15_ExecuteAdvances ==
  [][ \A j \in 1..MaxJobs :
        UpdateAfterExecution(j) =>
          LET s == ExecutingSip(j)
              newCount == sips[s].executionCount + 1
              advanced == getNextSipExecutionDate(sips[s].frequency,
                                                  sips[s].nextExecutionDate)
          IN /\ sips'[s].executionCount = newCount
             /\ IF sips[s].maxExecutions # 0 /\ newCount >= sips[s].maxExecutions
                THEN /\ sips'[s].status = "COMPLETED"
                     /\ sips'[s].nextExecutionDate = NullDate
                ELSE IF sips[s].endDate # NullDate /\ advanced > sips[s].endDate
                THEN /\ sips'[s].status = "COMPLETED"
                     /\ sips'[s].nextExecutionDate = NullDate
                ELSE /\ sips'[s].status = "ACTIVE"
                     /\ sips'[s].nextExecutionDate = advanced
    ]_vars

TerminalStatuses == {"COMPLETED", "CANCELLED"}

\* C16: SIP terminal states are final - once a registration's status is
\* COMPLETED or CANCELLED, no execute(), pause(), resume() or cancel() changes
\* it again.
C16_TerminalFinal ==
  [][ \A s \in SipIds :
        sips[s].status \in TerminalStatuses => sips'[s].status = sips[s].status
    ]_vars

----------------------------------------------------------------------------
(* Claims about folio creation, checked under FolioSpec *)

\* C17: in every reachable state no customer holds more than
\* maxFoliosPerCustomer ACTIVE folios, whatever the order and interleaving of
\* the two paths of the folio-creation tick and of createFolios(n).
C17_MaxActiveFolios ==
  \A c \in Customers : ActiveFolioCount(c) <= maxFoliosPerCustomer

\* C18: a customer whose ACTIVE folio count is at or above
\* maxFoliosPerCustomer is never selected by createFolioForExistingCustomer
\* as the target of an additional folio.
C18_MaxFoliosSelection ==
  [][ \A k \in 1..MaxFolioCalls, c \in Customers :
        CreateFolioForExistingCustomer(k, c) =>
          ActiveFolioCount(c) < maxFoliosPerCustomer
    ]_vars

\* C18 witness: one customer is at the maximum, and
\* createFolioForExistingCustomer, the only call in flight, has selected the
\* other customer, who is below it.
C18_Witness ==
  \E k \in 1..MaxFolioCalls, c \in Customers :
    /\ ActiveFolioCount(c) >= maxFoliosPerCustomer
    /\ folioCalls[k].path = "existing"
    /\ folioCalls[k].pc = "create"
    /\ folioCalls[k].customerId # c
    /\ ActiveFolioCount(folioCalls[k].customerId) < maxFoliosPerCustomer
    /\ \A other \in 1..MaxFolioCalls : other # k => folioCalls[other] = IdleCall

----------------------------------------------------------------------------
(* Claims about the NAV-update task, checked under NavSpec *)

\* No NAV-update callback is in flight.
NavIdle == \A k \in 1..MaxNavJobs : navJobs[k] = IdleNavJob

\* The last day on which the NAV of scheme s was mutated.
LastMutation(s) ==
  CHOOSE d \in 0..MaxNavDays :
    /\ <<s, d>> \in mutatedOn
    /\ \A e \in 0..MaxNavDays : <<s, e>> \in mutatedOn => e <= d

\* C19: every NAV mutation by the NAV-update task comes with a NAV history
\* record for the same scheme and day - nav_history never holds two rows for
\* one (scheme, day), and whenever no NAV update is in flight it holds exactly
\* one row for every (scheme, day) the NAV was mutated on, the row of the
\* last such day carrying the scheme's current NAV.
C19_NavHistoryFollowsNav ==
  /\ \A s \in SchemeIds, d \in 0..MaxNavDays : Cardinality(HistoryRows(s, d)) <= 1
  /\ NavIdle =>
       \A s \in SchemeIds, d \in 0..MaxNavDays :
         <<s, d>> \in mutatedOn =>
           /\ Cardinality(HistoryRows(s, d)) = 1
           /\ d = LastMutation(s) =>
                \A i \in HistoryRows(s, d) : navHistory[i].nav = schemeRows[s].nav

\* The NAVs simulateNAVMovement is evaluated on: below, on and around the
\* floor, the default NAVs and the largest NAV the products stay exact for.
NavValues == {1, 5000, 9000, 9999, NavFloor, 10001, 10100, 10205, 114500,
              DefaultNav, 500000}

AllDraws == {0, 5, 250, 495, 500, 505, 750, 975, 995}

\* C20: simulateNAVMovement() never returns a value below 1.0000, for any
\* current NAV, category and random draw; so after any sequence of NAV-update
\* ticks every updated scheme's NAV is at least 1.0000.
C20_NavFloor ==
  /\ \A nav \in NavValues, category \in Categories, r \in AllDraws :
       simulateNAVMovement(nav, category, r) >= NavFloor
  /\ \A s \in SchemeIds, d \in 0..MaxNavDays :
       <<s, d>> \in mutatedOn => schemeRows[s].nav >= NavFloor

\* C20 witness: an update of a scheme whose stored NAV was below 1.0000 has
\* written the floor, 1.0000, into table schemes.
C20_Witness ==
  \E k \in 1..MaxNavJobs :
    /\ navJobs[k].pc = "insertNAVHistory"
    /\ Head(navJobs[k].queue).nav < NavFloor
    /\ navJobs[k].newNav = NavFloor
    /\ schemeRows[Head(navJobs[k].queue).id].nav = NavFloor
    /\ <<Head(navJobs[k].queue).id, navDate>> \in mutatedOn

----------------------------------------------------------------------------
(* Claims about the manual triggers, checked under ManualSpec *)

\* The statements of script sc that create a row of table tbl.
Creates(sc, tbl) == Len(SelectSeq(sc, LAMBDA st : st.tbl = tbl))

\* C21: createCustomers(n), createFolios(n) and createTransactions(n) raise
\* customersCreated, foliosCreated, transactionsCreated once per entity
\* created: a call for n entities starts with n creations ahead and no
\* counter touched, every step of the call raises its counter by the number
\* of entities the step created (one or none), a creation is never skipped,
\* and a failing step creates and counts nothing - in any of STOPPED, RUNNING
\* and PAUSED.
C21_ManualCounters ==
  [][ /\ \A name \in ManualNames, count \in 1..MaxCount :
           ManualCall(name, count) =>
             /\ stats' = stats
             /\ \E b \in 1..MaxBodies :
                  /\ bodies[b] = IdleBody
                  /\ bodies'[b].task = name
                  /\ Creates(bodies'[b].script, EntityTable(name)) = count
      /\ \A b \in 1..MaxBodies :
           (bodies[b].task \in ManualNames /\ bodies'[b] # bodies[b]) =>
             LET tbl == EntityTable(bodies[b].task)
                 counter == EntityCounter(bodies[b].task)
                 made == dbWrites'[tbl] - dbWrites[tbl]
                 ahead == Creates(bodies[b].script, tbl)
                 left == Creates(bodies'[b].script, tbl)
             IN /\ made \in {0, 1}
                /\ stats'[counter] = stats[counter] + made
                /\ \A other \in {"customersCreated", "foliosCreated",
                                 "transactionsCreated"} \ {counter} :
                     stats'[other] = stats[other]
                /\ \/ left = ahead - made
                   \/ made = 0 /\ bodies'[b] = IdleBody
    ]_vars

\* C21 witness: on a PAUSED simulation a manual trigger is in flight with
\* one creation ahead, after one entity of its table was created and counted.
C21_Witness ==
  \E b \in 1..MaxBodies :
    /\ isRunning /\ isPaused
    /\ bodies[b].task \in ManualNames
    /\ Creates(bodies[b].script, EntityTable(bodies[b].task)) = 1
    /\ dbWrites[EntityTable(bodies[b].task)] = 1
    /\ stats[EntityCounter(bodies[b].task)] = 1

----------------------------------------------------------------------------
(* Further claims about settlement, checked under TxSpec *)

\* C22: process() adds to the holding of the transaction's (folio, scheme)
\* pair exactly the signed contribution of the transaction - plus the units
\* computed from its amount and the NAV passed to process() and plus its
\* amount for every mode but REDEMPTION, minus both for REDEMPTION - creating
\* the row with that contribution when the pair has none, and touches no
\* other holding.
C22_SignedContribution ==
  [][ \A j \in 1..MaxJobs :
        (jobs[j].pc = "updateHoldings" /\ jobs'[j].pc = "updateCurrentValue") =>
          LET it == Head(jobs[j].queue)
              row == txns[it.tx.id]
              sign == IF row.mode = "REDEMPTION" THEN -1 ELSE 1
              old == IF holdings[row.folio].present
                     THEN holdings[row.folio] ELSE NoHolding
          IN /\ holdings'[row.folio].present
             /\ holdings'[row.folio].total_units =
                  old.total_units + sign * calculateUnits(row.amount, it.nav)
             /\ holdings'[row.folio].invested_amount =
                  old.invested_amount + sign * row.amount
             /\ \A f \in Folios \ {row.folio} : holdings'[f] = holdings[f]
    ]_vars

\* C22 witness: a holding of 100 units bought for 1000 has taken a
\* REDEMPTION of 1000 at NAV 30: 66.666667 units are left and
\* invested_amount is down by the redemption's amount.
C22_Witness ==
  \E f \in Folios :
    /\ holdings[f].present
    /\ holdings[f].total_units = 66666667
    /\ holdings[f].invested_amount = 0
    /\ \E i \in 1..Len(txns) :
         /\ txns[i].folio = f /\ txns[i].mode = "REDEMPTION"
         /\ txns[i].status = "PROCESSED" /\ applied[i] = 1

\* C23: the repricing step that completes process() sets the holding's current_value to
\* its total_units - as they are at that step, interleaved upserts of other
\* process() calls included - multiplied by the NAV table schemes holds at
\* that step, not by the NAV passed to process(); totals and NAV are left as
\* they are.
C23_RepricedAtStoredNav ==
  [][ \A j \in 1..MaxJobs :
        ( /\ jobs[j].pc = "updateCurrentValue"
          /\ jobs'[j].pc \in {"updateCAMSStatus", "updateAfterExecution"} ) =>
          LET f == txns[Head(jobs[j].queue).tx.id].folio
          IN /\ holdings[f].present
             /\ holdings'[f].current_value =
                  CurrentValue(holdings[f].total_units, schemeNav)
             /\ holdings'[f].total_units = holdings[f].total_units
             /\ holdings'[f].invested_amount = holdings[f].invested_amount
             /\ schemeNav' = schemeNav
    ]_vars

\* C23 witness: process() was called with one NAV, the scheme's NAV was
\* updated before the repricing, another process() on the same pair has
\* added its units since this call's upsert, and the holding is priced at
\* the stored NAV.
C23_Witness ==
  \E j \in 1..MaxJobs :
    LET it == Head(jobs[j].queue)
    IN /\ jobs[j].pc \in {"updateCAMSStatus", "updateAfterExecution"}
       /\ it.nav # schemeNav
       /\ holdings[it.tx.folio].total_units # unitsChange(it.tx)
       /\ holdings[it.tx.folio].current_value =
            CurrentValue(holdings[it.tx.folio].total_units, schemeNav)
       /\ holdings[it.tx.folio].current_value #
            CurrentValue(holdings[it.tx.folio].total_units, it.nav)

\* C24: a transaction's lifecycle status changes only out of SUBMITTED (to
\* PROCESSED, REJECTED or CANCELLED) and its settlement status only out of
\* PENDING (to PROCESSED, REJECTED or FAILED); a field that has left its
\* initial value never changes again.
C24_StatusOnlyLeavesInitial ==
  [][ \A i \in 1..Len(txns) :
        /\ txns'[i].status # txns[i].status =>
             /\ txns[i].status = "SUBMITTED"
             /\ txns'[i].status \in {"PROCESSED", "REJECTED", "CANCELLED"}
        /\ txns'[i].cams # txns[i].cams =>
             /\ txns[i].cams = "PENDING"
             /\ txns'[i].cams \in {"PROCESSED", "REJECTED", "FAILED"}
    ]_vars

\* C25: a transaction for which the settlement task has drawn a rejection or
\* a technical failure is marked REJECTED, has contributed and will
\* contribute nothing to any holding, stays REJECTED, and is in the batch of
\* no later settlement tick.
C25_RejectedIsTerminal ==
  [][ /\ \A j \in 1..MaxJobs :
           (jobs[j].pc = "rejectCAMS" /\ jobs'[j] # jobs[j] /\ txns' # txns) =>
             /\ txns'[Head(jobs[j].queue).tx.id].cams = "REJECTED"
             /\ applied'[Head(jobs[j].queue).tx.id] = 0
             /\ holdings' = holdings
      /\ \A i \in 1..Len(txns) :
           txns[i].cams = "REJECTED" =>
             /\ txns'[i].cams = "REJECTED"
             /\ applied'[i] = 0
             /\ \A j \in 1..MaxJobs :
                  (jobs[j] = IdleJob /\ jobs'[j].kind = "cams") =>
                    \A n \in 1..Len(jobs'[j].queue) : jobs'[j].queue[n].tx.id # i
    ]_vars

----------------------------------------------------------------------------
(* Claims about the weekly transaction audit, checked under AuditSpec *)

\* C26: the weekly transaction audit is detection-only - no step of
\* performTransactionAudit, its start, a resolving query or a failing query,
\* changes a row of transactions, holdings or folios (or anything else but
\* the job itself), and a failing query ends the job without reaching the
\* scheduler's state.
C26_AuditDetectionOnly ==
  [][ \A j \in 1..MaxJobs :
        ( \/ (jobs[j].kind = "audit" /\ jobs'[j] # jobs[j])
          \/ (jobs[j] = IdleJob /\ jobs'[j].kind = "audit") ) =>
          /\ txns' = txns
          /\ holdings' = holdings
          /\ folioRows' = folioRows
          /\ UNCHANGED <<sips, schemeNav, applied, today, executed>>
          /\ UNCHANGED <<orchVars, folioVars, navVars>>
          /\ \A other \in 1..MaxJobs \ {j} : jobs'[other] = jobs[other]
          /\ jobs'[j].kind \in {"audit", "idle"}
    ]_vars

\* C26 witness: the audit is awaiting its query for holdings drift while a
\* holding differs from the sum of its PROCESSED transactions by
\* more than 0.001 units and a transaction is still SUBMITTED.
C26_Witness ==
  /\ \E j \in 1..MaxJobs : jobs[j].kind = "audit" /\ jobs[j].pc = AuditQueries[3]
  /\ \E f \in Folios :
       /\ holdings[f].present
       /\ \/ holdings[f].total_units - SumUnits(ProcessedRows(f)) > 1000
          \/ SumUnits(ProcessedRows(f)) - holdings[f].total_units > 1000
  /\ \E i \in 1..Len(txns) : txns[i].status = "SUBMITTED"

----------------------------------------------------------------------------
(* Further claims about the orchestrator, checked under Spec *)

\* C27: in every reachable state of the orchestrator isPaused = true implies
\* isRunning = true - the flags never say 'stopped and paused', whatever
\* sequence of start(), pause(), resume(), stop() and reset() is applied.
C27_PausedImpliesRunning == isPaused => isRunning

----------------------------------------------------------------------------
(* Further claims about SIP execution, checked under SipSpec *)

\* C28: for every SIP registration the number of SIP purchases created by
\* execute() equals the stored execution_count whenever no execute() is in
\* flight, and never exceeds maxExecutions when that is set.
C28_PurchasesMatchCount ==
  \A s \in SipIds :
    /\ (\A j \in 1..MaxJobs : jobs[j].kind # "sip")
         => Purchases(s) = sips[s].executionCount
    /\ sips[s].maxExecutions # 0 => Purchases(s) <= sips[s].maxExecutions

----------------------------------------------------------------------------
(* Further claims about the holdings aggregate, checked under TxSpec *)

\* C29: Holding.total_units is never negative in any reachable state - no
\* REDEMPTION is processed for more units than its holding contains.
C29_UnitsNeverNegative ==
  \A f \in Folios : holdings[f].total_units >= 0

----------------------------------------------------------------------------
(* Claims about eventual settlement, checked under LiveSpec *)

\* C30: every transaction whose lifecycle status becomes PROCESSED eventually
\* has settlement status PROCESSED as well, given that the settlement task
\* keeps firing and no storage call fails - the transactions SIP execute()
\* creates and processes at once included.
C30_ProcessedEventuallySettled ==
  \A i \in 1..MaxTx :
    (i <= Len(txns) /\ txns[i].status = "PROCESSED")
      ~> (i <= Len(txns) /\ txns[i].cams = "PROCESSED")

====
